---- MODULE Spec2Model ----
(***************************************************************************)
(* Model of ext/training.py: TrainerBase / PyTorchTrainer.                 *)
(*                                                                         *)
(* The trainer is sequential glue code.  Its state is the position of the  *)
(* train() loop, the wrapped model (parameters, train/eval mode), the      *)
(* History tracker, the two checkpoint files and the persisted tracker.    *)
(* History (ext/histories.py) is a collaborator; it is modelled from its   *)
(* documented contract.  Numbers the code keeps as floats are exact        *)
(* rationals <<num, den>> here.                                            *)
(***************************************************************************)
EXTENDS Integers, Naturals, Sequences, FiniteSets, TLC

VARIABLES
    cfg,        \* constructor arguments: train_loader, tune_loader, stopping policy
    pc,         \* position of the run: where train() is, or "done" / "failed"
    error,      \* the exception that ended the run, "none" while it runs
    run,        \* number of trainers constructed so far (process incarnations)
    params,     \* model.state_dict(): version of the parameters
    mode,       \* model.training: "train" or "eval"
    history,    \* the History tracker held by the trainer
    saved,      \* the tracker state persisted by history.save()
    ckpt,       \* the checkpoint files of ckpt_dir, by file name
    batchIdx,   \* number of batches of train_loader consumed in this epoch
    stepRes,    \* (loss, acc) returned by step(batch), pending for _end_step
    tuneIdx,    \* index of the tuning source being run
    tuneBatch,  \* number of batches of that source consumed
    cum_acc,    \* _tune: cum_acc
    epochRes,   \* the tuple history.end_epoch returned to _end_epoch
    lines,      \* progress lines printed in the current epoch
    lastLine,   \* the last line printed
    log,        \* the calls made in the current epoch, in order
    loaded,     \* whether the constructor of this run called _load_last
    ghost       \* bookkeeping about what the checkpoint files stand for

vars == <<cfg, pc, error, run, params, mode, history, saved, ckpt,
          batchIdx, stepRes, tuneIdx, tuneBatch, cum_acc, epochRes, lines,
          lastLine, log, loaded, ghost>>

----------------------------------------------------------------------------
(* Bounds of the model *)

\* train() loops forever by default: epochs are capped
MaxEpoch == 3
\* trainers constructed one after another (a run, then resumed runs)
MaxRuns == 2

----------------------------------------------------------------------------
(* Exact rational arithmetic for the float quantities *)

RECURSIVE GCD(_, _)
GCD(a, b) == IF b = 0 THEN a ELSE GCD(b, a % b)

Abs(x) == IF x < 0 THEN -x ELSE x

Rat(n, d) ==
    LET g == GCD(Abs(n), d) IN <<n \div g, d \div g>>

RatSub(a, b) == Rat(a[1] * b[2] - b[1] * a[2], a[2] * b[2])
RatLT(a, b) == a[1] * b[2] < b[1] * a[2]
RatPos(a) == a[1] > 0
Zero == <<0, 1>>

RECURSIVE Pow10(_)
Pow10(k) == IF k = 0 THEN 1 ELSE 10 * Pow10(k - 1)

\* '%.<places>f' % x : x rounded to that many decimals, as an integer count
\* of the last decimal place
Fmt(x, places) ==
    LET n == Abs(x[1]) * Pow10(places)
        q == (2 * n + x[2]) \div (2 * x[2])
    IN IF x[1] < 0 THEN -q ELSE q

----------------------------------------------------------------------------
(* Utility functions *)

\* pretty_time(secs): the number shown (in hundredths) and its unit
pretty_time(secs) ==
    IF RatLT(secs, <<60, 1>>) THEN <<Fmt(secs, 2), "secs">>
    ELSE IF RatLT(secs, <<3600, 1>>) THEN <<Fmt(Rat(secs[1], secs[2] * 60), 2), "mins">>
    ELSE IF RatLT(secs, <<86400, 1>>) THEN <<Fmt(Rat(secs[1], secs[2] * 3600), 2), "hrs">>
    ELSE <<Fmt(Rat(secs[1], secs[2] * 86400), 2), "days">>

----------------------------------------------------------------------------
(* The collaborators: data sources, model, History *)

\* len(train_loader) of the runs explored: one shorter than ten batches
TrainLens == {3, 10, 20}
ShortTrainLens == {3, 10}

\* tune_loader: one data source, or a list of data sources (batch counts)
TuneLoaders ==
    { [is_list |-> FALSE, sources |-> <<2>>],
      [is_list |-> TRUE,  sources |-> <<1, 1>>] }

\* _stopping_condition_met is the default one or an override of a subclass
Policies == {"default", "override"}

\* (loss, acc) a training batch can give: a model whose batches all give the
\* same, and one whose batches differ
SteadyBatches == { [loss |-> 2, acc |-> 0] }
VaryingBatches == { [loss |-> 2, acc |-> 0], [loss |-> 1, acc |-> 1] }
\* accuracy a tuning batch can give
SteadyTuning == {1}
VaryingTuning == {0, 1}
\* what time.time() differences can be, in seconds
StepDurations == {1}
EpochDurations == {90}

\* parameters of a newly built model, before any optimisation step
InitParams == 0

\* a History that has recorded nothing
FreshHistory ==
    [global_step |-> 1, global_epoch |-> 1,
     steps |-> 0, loss_sum |-> 0, acc_sum |-> 0, time_sum |-> 0,
     epochs |-> 0, epoch_time_sum |-> 0,
     prev_loss |-> Zero, prev_acc |-> Zero,
     tuning_acc |-> Zero, tuning_change |-> Zero]

Avg(sum, n) == IF n = 0 THEN Zero ELSE Rat(sum, n)

\* History.end_step(time_taken, loss, acc): the tracker after the step
history_end_step(h, time_taken, loss, acc) ==
    [h EXCEPT !.global_step = @ + 1,
              !.steps = @ + 1,
              !.loss_sum = @ + loss,
              !.acc_sum = @ + acc,
              !.time_sum = @ + time_taken]

\* ... and what it returns: global_step, avg_time, avg_loss, avg_acc
end_step_result(h) ==
    [global_step |-> h.global_step,
     avg_time |-> Avg(h.time_sum, h.steps),
     avg_loss |-> Avg(h.loss_sum, h.steps),
     avg_acc |-> Avg(h.acc_sum, h.steps)]

\* History.end_tuning(tuning_acc): the tracker after a tuning pass
history_end_tuning(h, tuning_acc) ==
    [h EXCEPT !.tuning_acc = tuning_acc,
              !.tuning_change = RatSub(tuning_acc, h.tuning_acc)]

\* ... and what it returns: avg_acc, change_acc
end_tuning_result(h) ==
    [avg_acc |-> h.tuning_acc, change_acc |-> h.tuning_change]

\* History.end_epoch(time_taken) returns
\* avg_time, avg_loss, change_loss, avg_acc, change_acc, is_best
end_epoch_result(h, time_taken) ==
    [avg_time |-> Avg(h.epoch_time_sum + time_taken, h.epochs + 1),
     avg_loss |-> Avg(h.loss_sum, h.steps),
     change_loss |-> RatSub(Avg(h.loss_sum, h.steps), h.prev_loss),
     avg_acc |-> Avg(h.acc_sum, h.steps),
     change_acc |-> RatSub(Avg(h.acc_sum, h.steps), h.prev_acc),
     is_best |-> RatPos(h.tuning_change)]

\* ... and the tracker after the epoch
history_end_epoch(h, time_taken) ==
    [h EXCEPT !.global_epoch = @ + 1,
              !.epochs = @ + 1,
              !.epoch_time_sum = @ + time_taken,
              !.prev_loss = Avg(h.loss_sum, h.steps),
              !.prev_acc = Avg(h.acc_sum, h.steps)]

NoEpochResult ==
    [avg_time |-> Zero, avg_loss |-> Zero, change_loss |-> Zero,
     avg_acc |-> Zero, change_acc |-> Zero, is_best |-> FALSE]

----------------------------------------------------------------------------
(* TrainerBase: the pure parts *)

NoFile == [state |-> "none", params |-> 0]
\* a file whose write did not finish
Corrupt == [state |-> "corrupt", params |-> 0]
\* torch.save(state_dict, path)
Written(state_dict) == [state |-> "ok", params |-> state_dict]

\* ckpt_path(is_best): the file name within ckpt_dir
ckpt_path(is_best) == IF is_best THEN "best" ELSE "latest"

NeedsLoad_OffByOne(h) == h.global_step >= 1

\* __init__: "if self.history.global_step > 1"
NeedsLoad(h) == h.global_step > 1

\* report_every
report_every(batches_per_epoch) == batches_per_epoch \div 10

\* progress_percent
progress_percent(global_step, batches_per_epoch) ==
    LET r == global_step % batches_per_epoch
    IN ((10 * r + batches_per_epoch - 1) \div batches_per_epoch) * 10

\* steps_remaining
steps_remaining(global_step, batches_per_epoch) ==
    batches_per_epoch - (global_step % batches_per_epoch)

Sign(x) == IF RatPos(x) THEN "+" ELSE ""

\* _report_epoch(avg_time, change_loss, change_acc): the line printed
_report_epoch(avg_time, change_loss, change_acc) ==
    [kind |-> "epoch",
     loss_sign |-> Sign(change_loss), loss |-> Fmt(change_loss, 5),
     acc_sign |-> Sign(change_acc), acc |-> Fmt(change_acc, 4),
     time |-> pretty_time(avg_time)]

\* _report_step: the line printed when one is due
StepLine(global_step, loss, avg_loss, acc, avg_acc, avg_time, bpe) ==
    [kind |-> "step",
     percent |-> progress_percent(global_step, bpe),
     loss |-> Fmt(<<loss, 1>>, 5), avg_loss |-> Fmt(avg_loss, 5),
     acc |-> Fmt(<<acc * 100, 1>>, 4),
     avg_acc |-> Fmt(Rat(avg_acc[1] * 100, avg_acc[2]), 4),
     time |-> pretty_time(avg_time),
     remaining |-> pretty_time(
         Rat(avg_time[1] * steps_remaining(global_step, bpe), avg_time[2]))]

\* _tune: the line printed after a tuning source
TuneLine(avg_acc, change_acc) ==
    [kind |-> "tune",
     acc |-> Fmt(Rat(avg_acc[1] * 100, avg_acc[2]), 3),
     sign |-> Sign(change_acc),
     change |-> Fmt(Rat(change_acc[1] * 100, change_acc[2]), 3)]

NoLine == [kind |-> "none"]

_stopping_condition_met_Answer(policy, answer) == answer

\* _stopping_condition_met(): False unless overridden; an override answers
\* as it likes
_stopping_condition_met(policy, answer) ==
    IF policy = "default" THEN FALSE ELSE answer

_checkpoint_AlwaysBest(is_best, state_dict, files) ==
    [files EXCEPT ![ckpt_path(FALSE)] = Written(state_dict),
                  ![ckpt_path(TRUE)] = Written(state_dict)]

\* PyTorchTrainer._checkpoint(is_best): the files after it
_checkpoint(is_best, state_dict, files) ==
    LET f1 == [files EXCEPT ![ckpt_path(FALSE)] = Written(state_dict)]
    IN IF is_best
       THEN [f1 EXCEPT ![ckpt_path(TRUE)] = Written(state_dict)]
       ELSE f1


\* the files a failed or interrupted _checkpoint(is_best) can leave behind:
\* torch.save opens the file, truncating it, and then writes it
TornCheckpoints(is_best, state_dict, files) ==
    LET f1 == [files EXCEPT ![ckpt_path(FALSE)] = Written(state_dict)]
    IN { [files |-> files, wrote_latest |-> FALSE],
         [files |-> [files EXCEPT ![ckpt_path(FALSE)] = Corrupt],
          wrote_latest |-> FALSE] }
       \cup
       ( IF is_best
         THEN { [files |-> f1, wrote_latest |-> TRUE],
                [files |-> [f1 EXCEPT ![ckpt_path(TRUE)] = Corrupt],
                 wrote_latest |-> TRUE] }
         ELSE {} )

ForLoopDone_OffByOne(consumed, batches_per_epoch) ==
    consumed + 1 >= batches_per_epoch

\* train: "for _, batch in enumerate(self.train_loader)" is exhausted
ForLoopDone(consumed, batches_per_epoch) == consumed >= batches_per_epoch

\* _tuning: the data sources a tuning pass runs, in order
TuneSources(tune_loader) ==
    IF tune_loader.is_list THEN tune_loader.sources
    ELSE <<tune_loader.sources[1]>>

TuningMode_Train == "train"

\* _tuning: the mode the model is put in before the sources are run
TuningMode == "eval"

_end_epoch_order_SaveFirst == <<"end_epoch", "save", "checkpoint">>

\* _end_epoch: its statements after the report, in order
_end_epoch_order == <<"end_epoch", "checkpoint", "save">>

\* the position after statement p of _end_epoch; back to "while" at the end
After(p) ==
    LET i == CHOOSE k \in 1..Len(_end_epoch_order) : _end_epoch_order[k] = p
    IN IF i = Len(_end_epoch_order) THEN "loop" ELSE _end_epoch_order[i + 1]

Uncaught_SkipBatch(position) == IF position = "step" THEN "for" ELSE "failed"

\* an exception nobody catches ends train()
Uncaught(position) == "failed"

----------------------------------------------------------------------------
(* The calls of one whole epoch, as train() is written *)

RECURSIVE Repeat(_, _)
Repeat(s, n) == IF n = 0 THEN <<>> ELSE s \o Repeat(s, n - 1)

RECURSIVE TuneCalls(_, _)
TuneCalls(sources, i) ==
    IF i > Len(sources) THEN <<>>
    ELSE Repeat(<<"forward">>, sources[i]) \o <<"end_tuning">>
         \o TuneCalls(sources, i + 1)

EpochCalls(c) ==
    <<"start_epoch">>
    \o Repeat(<<"start_step", "step", "end_step">>, c.bpe)
    \o <<"model.eval">> \o TuneCalls(TuneSources(c.tune), 1) \o <<"model.train">>
    \o <<"history.end_epoch", "report_epoch", "checkpoint", "history.save">>

IsPrefix(s, t) == Len(s) <= Len(t) /\ s = SubSeq(t, 1, Len(s))

----------------------------------------------------------------------------
(* State after constructing the first trainer, with a new History *)

Running == {"loop", "for", "step", "end_step", "tune",
            "end_epoch", "checkpoint", "save"}

\* latest_epoch: the tracker's epoch when "latest" was last written in full;
\* torn: an unfinished write has truncated "latest" since; best_acc: tuning
\* accuracy of the epoch "best" was written in; max_acc: highest tuning
\* accuracy of the epochs checkpointed; completed: their number
NoGhost ==
    [latest_epoch |-> 0, torn |-> FALSE, best_acc |-> Zero, max_acc |-> Zero,
     completed |-> 0]

\* the trainers explored: checkpointing and control flow are followed over
\* every tuning outcome, reporting over every batch outcome
Configs ==
    [bpe : TrainLens, tune : TuneLoaders, policy : Policies,
     batches : {SteadyBatches}, tuning : {VaryingTuning}]
ReportConfigs ==
    [bpe : ShortTrainLens, tune : {[is_list |-> FALSE, sources |-> <<2>>]},
     policy : {"override"},
     batches : {VaryingBatches}, tuning : {SteadyTuning}]

InitWith(configs) ==
    /\ cfg \in configs
    /\ pc = "loop"
    /\ error = "none"
    /\ run = 1
    /\ params = InitParams
    /\ mode = "train"
    /\ history = FreshHistory
    /\ saved = [exists |-> FALSE, h |-> FreshHistory]
    /\ ckpt = [latest |-> NoFile, best |-> NoFile]
    /\ batchIdx = 0
    /\ stepRes = [loss |-> 0, acc |-> 0]
    /\ tuneIdx = 1
    /\ tuneBatch = 0
    /\ cum_acc = 0
    /\ epochRes = NoEpochResult
    /\ lines = 0
    /\ lastLine = NoLine
    /\ log = <<>>
    /\ loaded = FALSE
    /\ ghost = NoGhost

----------------------------------------------------------------------------
(* TrainerBase.__init__ / PyTorchTrainer.__init__ of a later trainer: the   *)
(* History handed in is the persisted one when there is one, the model is   *)
(* newly built.                                                             *)
Construct ==
    /\ pc \in {"failed", "done"}
    /\ run < MaxRuns
    /\ run' = run + 1
    /\ LET h == IF saved.exists THEN saved.h ELSE FreshHistory
       IN /\ history' = h
          /\ IF NeedsLoad(h)
             THEN \* _load_last: load_state_dict(torch.load(ckpt_path(False)))
                  /\ loaded' = (ckpt[ckpt_path(FALSE)].state = "ok")
                  /\ IF ckpt[ckpt_path(FALSE)].state = "ok"
                     THEN /\ params' = ckpt[ckpt_path(FALSE)].params
                          /\ pc' = "loop"
                          /\ error' = "none"
                     ELSE /\ params' = InitParams
                          /\ pc' = Uncaught("__init__")
                          /\ error' = "torch.load"
             ELSE /\ loaded' = FALSE
                  /\ params' = InitParams
                  /\ pc' = "loop"
                  /\ error' = "none"
    /\ mode' = "train"
    /\ batchIdx' = 0
    /\ stepRes' = [loss |-> 0, acc |-> 0]
    /\ tuneIdx' = 1
    /\ tuneBatch' = 0
    /\ cum_acc' = 0
    /\ epochRes' = NoEpochResult
    /\ lines' = 0
    /\ lastLine' = NoLine
    /\ log' = <<>>
    /\ UNCHANGED <<cfg, saved, ckpt, ghost>>

(* train: "while not self._stopping_condition_met()" is left *)
Return ==
    /\ pc = "loop"
    /\ \E answer \in BOOLEAN : _stopping_condition_met(cfg.policy, answer)
    /\ pc' = "done"
    /\ UNCHANGED <<cfg, error, run, params, mode, history, saved, ckpt,
                   batchIdx, stepRes, tuneIdx, tuneBatch, cum_acc, epochRes,
                   lines, lastLine, log, loaded, ghost>>

(* train: the loop is entered; _start_epoch *)
StartEpoch ==
    /\ pc = "loop"
    /\ \E answer \in BOOLEAN : ~ _stopping_condition_met(cfg.policy, answer)
    /\ history.global_epoch <= MaxEpoch
    /\ mode' = "train"
    /\ batchIdx' = 0
    /\ lines' = 0
    /\ lastLine' = [kind |-> "epoch_start", epoch |-> history.global_epoch]
    /\ log' = Append(IF log = EpochCalls(cfg) THEN <<>> ELSE log, "start_epoch")
    /\ pc' = "for"
    /\ UNCHANGED <<cfg, error, run, params, history, saved, ckpt, stepRes,
                   tuneIdx, tuneBatch, cum_acc, epochRes, loaded, ghost>>

(* train: the for loop yields a batch; _start_step *)
StartStep ==
    /\ pc = "for"
    /\ ~ ForLoopDone(batchIdx, cfg.bpe)
    /\ log' = Append(log, "start_step")
    /\ pc' = "step"
    /\ UNCHANGED <<cfg, error, run, params, mode, history, saved, ckpt,
                   batchIdx, stepRes, tuneIdx, tuneBatch, cum_acc, epochRes,
                   lines, lastLine, loaded, ghost>>

(* PyTorchTrainer.step: zero_grad, forward, optimize *)
Step ==
    /\ pc = "step"
    /\ \E o \in cfg.batches : stepRes' = o
    /\ params' = params + 1
    /\ log' = Append(log, "step")
    /\ pc' = "end_step"
    /\ UNCHANGED <<cfg, error, run, mode, history, saved, ckpt, batchIdx,
                   tuneIdx, tuneBatch, cum_acc, epochRes, lines, lastLine,
                   loaded, ghost>>

(* _end_step: history.end_step, then _report_step *)
EndStep ==
    /\ pc = "end_step"
    /\ \E time_taken \in StepDurations :
         LET h == history_end_step(history, time_taken, stepRes.loss, stepRes.acc)
             r == end_step_result(h)
             every == report_every(cfg.bpe)
         IN /\ history' = h
            /\ log' = Append(log, "end_step")
            /\ IF every = 0
               THEN \* global_step % 0
                    /\ pc' = Uncaught("end_step")
                    /\ error' = "ZeroDivisionError"
                    /\ UNCHANGED <<lines, lastLine, batchIdx>>
               ELSE /\ IF r.global_step % every = 0
                       THEN /\ lines' = lines + 1
                            /\ lastLine' = StepLine(r.global_step, stepRes.loss,
                                               r.avg_loss, stepRes.acc, r.avg_acc,
                                               r.avg_time, cfg.bpe)
                       ELSE UNCHANGED <<lines, lastLine>>
                    /\ batchIdx' = batchIdx + 1
                    /\ pc' = "for"
                    /\ error' = error
    /\ UNCHANGED <<cfg, run, params, mode, saved, ckpt, stepRes, tuneIdx,
                   tuneBatch, cum_acc, epochRes, loaded, ghost>>

(* train: the for loop is over; _tuning: model.eval() *)
StartTuning ==
    /\ pc = "for"
    /\ ForLoopDone(batchIdx, cfg.bpe)
    /\ mode' = TuningMode
    /\ tuneIdx' = 1
    /\ tuneBatch' = 0
    /\ cum_acc' = 0
    /\ log' = Append(log, "model.eval")
    /\ pc' = "tune"
    /\ UNCHANGED <<cfg, error, run, params, history, saved, ckpt, batchIdx,
                   stepRes, epochRes, lines, lastLine, loaded, ghost>>

(* _tune: one batch of the current source through model.forward *)
TuneForward ==
    /\ pc = "tune"
    /\ tuneIdx <= Len(TuneSources(cfg.tune))
    /\ tuneBatch < TuneSources(cfg.tune)[tuneIdx]
    /\ \E acc \in cfg.tuning : cum_acc' = cum_acc + acc
    /\ tuneBatch' = tuneBatch + 1
    /\ log' = Append(log, "forward")
    /\ UNCHANGED <<cfg, pc, error, run, params, mode, history, saved, ckpt,
                   batchIdx, stepRes, tuneIdx, epochRes, lines, lastLine,
                   loaded, ghost>>

(* _tune: the source is exhausted; history.end_tuning and the summary line *)
EndTune ==
    /\ pc = "tune"
    /\ tuneIdx <= Len(TuneSources(cfg.tune))
    /\ tuneBatch = TuneSources(cfg.tune)[tuneIdx]
    /\ LET tuning_acc == Rat(cum_acc, TuneSources(cfg.tune)[tuneIdx])
           h == history_end_tuning(history, tuning_acc)
           r == end_tuning_result(h)
       IN /\ history' = h
          /\ lastLine' = TuneLine(r.avg_acc, r.change_acc)
    /\ tuneIdx' = tuneIdx + 1
    /\ tuneBatch' = 0
    /\ cum_acc' = 0
    /\ log' = Append(log, "end_tuning")
    /\ UNCHANGED <<cfg, pc, error, run, params, mode, saved, ckpt, batchIdx,
                   stepRes, epochRes, lines, loaded, ghost>>

(* _tuning: every source has been run; model.train() *)
EndTuning ==
    /\ pc = "tune"
    /\ tuneIdx > Len(TuneSources(cfg.tune))
    /\ mode' = "train"
    /\ log' = Append(log, "model.train")
    /\ pc' = _end_epoch_order[1]
    /\ UNCHANGED <<cfg, error, run, params, history, saved, ckpt, batchIdx,
                   stepRes, tuneIdx, tuneBatch, cum_acc, epochRes, lines,
                   lastLine, loaded, ghost>>

(* _end_epoch: history.end_epoch and _report_epoch *)
EndEpoch ==
    /\ pc = "end_epoch"
    /\ \E time_taken \in EpochDurations :
         LET r == end_epoch_result(history, time_taken)
         IN /\ epochRes' = r
            /\ history' = history_end_epoch(history, time_taken)
            \* self._report_epoch(avg_time, avg_loss, change_loss)
            /\ lastLine' = _report_epoch(r.avg_time, r.avg_loss, r.change_loss)
    /\ log' = log \o <<"history.end_epoch", "report_epoch">>
    /\ pc' = After("end_epoch")
    /\ UNCHANGED <<cfg, error, run, params, mode, saved, ckpt, batchIdx,
                   stepRes, tuneIdx, tuneBatch, cum_acc, lines, loaded, ghost>>

(* _end_epoch: self._checkpoint(is_best) *)
Checkpoint ==
    /\ pc = "checkpoint"
    /\ ckpt' = _checkpoint(epochRes.is_best, params, ckpt)
    /\ ghost' = [latest_epoch |-> history.global_epoch,
                 torn |-> FALSE,
                 best_acc |-> IF epochRes.is_best THEN history.tuning_acc
                              ELSE ghost.best_acc,
                 max_acc |-> IF ghost.completed = 0
                                \/ RatLT(ghost.max_acc, history.tuning_acc)
                             THEN history.tuning_acc ELSE ghost.max_acc,
                 completed |-> ghost.completed + 1]
    /\ log' = Append(log, "checkpoint")
    /\ pc' = After("checkpoint")
    /\ UNCHANGED <<cfg, error, run, params, mode, history, saved, batchIdx,
                   stepRes, tuneIdx, tuneBatch, cum_acc, epochRes, lines,
                   lastLine, loaded>>

(* _end_epoch: self.history.save() *)
Save ==
    /\ pc = "save"
    /\ saved' = [exists |-> TRUE, h |-> history]
    /\ log' = Append(log, "history.save")
    /\ pc' = After("save")
    /\ UNCHANGED <<cfg, error, run, params, mode, history, ckpt, batchIdx,
                   stepRes, tuneIdx, tuneBatch, cum_acc, epochRes, lines,
                   lastLine, loaded, ghost>>

(* The call the run is about to make raises, or the process is interrupted: *)
(* nothing in train() catches it.  A checkpoint write that does not finish   *)
(* can leave its file truncated.                                             *)
Abort ==
    /\ pc \in Running
    /\ pc' = Uncaught(pc)
    /\ error' = "raised"
    /\ IF pc = "checkpoint"
       THEN \E t \in TornCheckpoints(epochRes.is_best, params, ckpt) :
              /\ ckpt' = t.files
              /\ ghost' = IF t.wrote_latest
                          THEN [ghost EXCEPT !.latest_epoch = history.global_epoch,
                                             !.torn = FALSE]
                          ELSE [ghost EXCEPT !.torn =
                                   @ \/ t.files[ckpt_path(FALSE)] = Corrupt]
       ELSE UNCHANGED <<ckpt, ghost>>
    /\ UNCHANGED <<cfg, run, params, mode, history, saved, batchIdx, stepRes,
                   tuneIdx, tuneBatch, cum_acc, epochRes, lines, lastLine,
                   log, loaded>>

Next ==
    \/ Construct
    \/ Return
    \/ StartEpoch
    \/ StartStep
    \/ Step
    \/ EndStep
    \/ StartTuning
    \/ TuneForward
    \/ EndTune
    \/ EndTuning
    \/ EndEpoch
    \/ Checkpoint
    \/ Save
    \/ Abort

Init == InitWith(Configs)
Spec == Init /\ [][Next]_vars

InitReport == InitWith(ReportConfigs)
SpecReport == InitReport /\ [][Next]_vars


----------------------------------------------------------------------------
(* Properties *)

PreCheckpoint == {"loop", "for", "step", "end_step", "tune", "end_epoch"}

\* C1: the end-of-epoch checkpoint writes the model's parameters to "latest";
\* when end_epoch returned is_best it writes "best" too, which then equals
\* "latest"; otherwise "best" is left as it was.
C1_Checkpoint ==
    [][ (pc = "checkpoint" /\ pc' # "failed") =>
          /\ ckpt'.latest = Written(params)
          /\ params' = params
          /\ IF epochRes.is_best
             THEN ckpt'.best = ckpt'.latest
             ELSE ckpt'.best = ckpt.best ]_vars

C1_Witness ==
    /\ pc = "save"
    /\ ~ epochRes.is_best
    /\ ckpt.best.state = "ok"
    /\ ckpt.latest.state = "ok"
    /\ ckpt.best # ckpt.latest

\* C2: after any number of epochs of a run, "best" holds the parameters of an
\* epoch whose tuning accuracy is the highest seen so far.
C2_BestIsHighest ==
    (run = 1 /\ ghost.completed >= 1 /\ ckpt.best.state = "ok")
        => ghost.best_acc = ghost.max_acc

\* C3: a trainer constructed with a tracker whose global_step is greater than
\* 1 has loaded "latest" before train() starts, so its parameters are those
\* of the file; with global_step not greater than 1 nothing is loaded.
C3_Resume ==
    (pc = "loop" /\ log = <<>>) =>
        IF history.global_step > 1
        THEN loaded /\ ckpt.latest.state = "ok" /\ params = ckpt.latest.params
        ELSE ~ loaded /\ params = InitParams

C3_Witness ==
    /\ pc = "loop" /\ log = <<>> /\ run > 1
    /\ loaded /\ params # InitParams /\ params = ckpt.latest.params

\* C4: the calls of an epoch happen in the order train() gives them: start of
\* the epoch in training mode, start_step / step / end_step once per batch,
\* one tuning pass, then end_epoch, report, checkpoint and save; the loop
\* head is only reached with no epoch or a whole epoch behind it.
C4_Order ==
    /\ IsPrefix(log, EpochCalls(cfg))
    /\ pc \in {"loop", "done"} => log \in {<<>>, EpochCalls(cfg)}
    /\ pc \in {"for", "step", "end_step"} => mode = "train"
    /\ pc = "for" => Len(log) = 1 + 3 * batchIdx

C4_Witness ==
    /\ pc = "loop" /\ log = EpochCalls(cfg)
    /\ ghost.completed >= 2 /\ error = "none"

\* C5: for every length of the training source, every step ends with a
\* progress line exactly when report_every divides the tracker's global step.
C5_ProgressLines ==
    /\ error # "ZeroDivisionError"
    /\ (pc = "for" /\ report_every(cfg.bpe) > 0) =>
          lines = Cardinality(
              { g \in (history.global_step - batchIdx + 1)..history.global_step :
                  g % report_every(cfg.bpe) = 0 })

\* C6: the end-of-epoch line shows the change of the average loss and the
\* change of the average accuracy that end_epoch returned, and its averaged
\* epoch duration.
C6_EpochReport ==
    lastLine.kind = "epoch" =>
        lastLine = _report_epoch(epochRes.avg_time, epochRes.change_loss,
                                 epochRes.change_acc)

\* C7: optimisation steps run in training mode only; a tuning pass runs in
\* evaluation mode, changes no parameter, hands each source's summed accuracy
\* divided by its batch count to end_tuning once the source is exhausted, and
\* ends, after the last source, with the model back in training mode.
C7_Tuning ==
    [][ /\ pc = "step" => mode = "train"
        /\ pc = "tune" => mode = "eval" /\ params' = params
        /\ (pc = "tune" /\ tuneIdx' # tuneIdx) =>
              /\ tuneIdx' = tuneIdx + 1
              /\ tuneBatch = TuneSources(cfg.tune)[tuneIdx]
              /\ history'.tuning_acc = Rat(cum_acc, tuneBatch)
        /\ (pc = "tune" /\ pc' \notin {"tune", "failed"}) =>
              /\ tuneIdx = Len(TuneSources(cfg.tune)) + 1
              /\ mode' = "train" ]_vars

C7_Witness ==
    /\ pc = "tune" /\ mode = "eval"
    /\ tuneIdx = 2 /\ tuneBatch = 1 /\ cum_acc = 1
    /\ history.tuning_acc = <<1, 1>>

\* C8: with the default stopping condition train() never returns and can
\* always start another epoch; with an overridden one it returns only from
\* the loop head, after a whole number of epochs.
C8_Stopping ==
    /\ cfg.policy = "default" => pc # "done"
    /\ (cfg.policy = "default" /\ pc = "loop" /\ history.global_epoch <= MaxEpoch)
          => ENABLED StartEpoch
    /\ pc = "done" => log \in {<<>>, EpochCalls(cfg)}

C8_Witness ==
    /\ pc = "done" /\ log = EpochCalls(cfg) /\ ghost.completed >= 2

\* C9: a failure ends the run: it is not caught, nothing more of the run
\* happens, and up to the checkpoint of an epoch neither the checkpoint
\* files nor the persisted tracker change.
C9_FailFast ==
    [][ /\ (error' # "none" /\ run' = run) => pc' = "failed"
        /\ pc = "failed" => run' = run + 1
        /\ pc \in PreCheckpoint => ckpt' = ckpt /\ saved' = saved ]_vars

C9_Witness ==
    /\ pc = "failed" /\ error = "raised"
    /\ "history.end_epoch" \in {log[i] : i \in 1..Len(log)}
    /\ "checkpoint" \notin {log[i] : i \in 1..Len(log)}
    /\ saved.exists /\ saved.h.global_epoch = ghost.latest_epoch
    /\ ckpt.latest.state = "ok"

\* C10 as claimed: whenever the persisted tracker has global_step > 1, a
\* "latest" checkpoint at least as recent is there to be loaded.
C10_AlwaysLoadable ==
    (saved.exists /\ saved.h.global_step > 1) =>
        /\ ckpt.latest.state = "ok"
        /\ ghost.latest_epoch >= saved.h.global_epoch

\* C10 amended: "latest" has been written in full for every epoch the
\* persisted tracker records, and the file is that checkpoint or a later
\* one, unless a later write of it was cut short and left it truncated.
C10_WrittenBeforeSaved ==
    saved.exists =>
        /\ ghost.latest_epoch >= saved.h.global_epoch
        /\ ckpt.latest.state = "ok" \/ (ckpt.latest.state = "corrupt" /\ ghost.torn)

C10_Witness ==
    /\ saved.exists /\ saved.h.global_step > 1
    /\ ckpt.latest.state = "corrupt"
    /\ run > 1 /\ error = "torch.load"

====
